---- MODULE Spec2Model ----
(***************************************************************************)
(* Model of the transport core of intent-ethers-provider:                  *)
(* src/src/internal/transport/HttpSubprovider.ts, class                    *)
(* WebSocketSubprovider (the shared connection, its outbound queue, the    *)
(* request/response correlation of post(), and the stream sessions).       *)
(*                                                                         *)
(* The program is single threaded: every public method and every socket    *)
(* or timer callback runs to completion, so each is one action.            *)
(***************************************************************************)
EXTENDS Integers, Sequences, FiniteSets, TLC

(***************************************************************************)
(* Bounds of the model.                                                    *)
(***************************************************************************)
\* number of `new WebSocket(url)` evaluations of the shared connection in a run
\* of Spec and PostSpec, of RaceSpec and of ReconnectSpec
MaxSockets == 2
MaxRaceSockets == 3
MaxReconnectSockets == 8
\* number of messages handed to send() (directly or through post()) in a run
MaxMsgs == 2
\* number of frames a stream's dedicated socket receives in a run
MaxFrames == 3
\* constructor calls of the shared connection and post() calls in a run of
\* CorrelatorSpec
MaxPostSockets == 1
MaxPostCalls == 1
\* constructor calls of the shared connection in a run of ExhaustedSpec
MaxExhaustedSockets == 5
\* frames on the dedicated socket of each session in a run of SessionsSpec
MaxSessionFrames == 2
\* constructor calls and send() calls in a run of FlushSpec
MaxFlushSockets == 2
MaxFlushMsgs == 3

(***************************************************************************)
(* Program constants.                                                      *)
(***************************************************************************)
maxReconnectAttempts == 5
reconnectDelay == 1000

VARIABLES
    ws,                 \* this.ws: 0 is null, else the index of a socket in socks
    messageQueue,       \* this.messageQueue
    isConnecting,       \* this.isConnecting
    reconnectAttempts,  \* this.reconnectAttempts
    urlOk,              \* whether `new WebSocket(this.url)` constructs (valid url)
    socks,              \* every socket the shared connection ever constructed:
                        \* its readyState, in construction order
    timers,             \* pending setTimeout(() => this.connect(), d): remaining
                        \* delay in ms |-> number of timers
    wire,               \* history: what was handed to ws.send, in order
    err,                \* what the last handler or call threw ("none" if nothing)
    nextSeq,            \* history: number of send() calls so far
    queuedSeqs,         \* history: the messages send() put in the queue
    autoMade,           \* history: sockets constructed by reconnect timers since
                        \* the reconnect counter was last reset
    lastCall,           \* history: the user's last call on the shared connection
    calls,              \* the post() calls: id, listener, outcome
    now,                \* Date.now(), up to renaming of the instants
    sess,               \* one stream session: the locals of stream() and the
                        \* position of its generator, with the session's history
    peer,               \* a second stream session, concurrent with the first
    rpc,                \* one call of an IntentProvider method: its arguments,
                        \* what it gave its transport, and its outcome
    http                \* one call of HttpSubprovider.post: the answer to its
                        \* fetch and its outcome

connVars == <<ws, messageQueue, isConnecting, reconnectAttempts, urlOk, socks,
              timers, wire, err, nextSeq, queuedSeqs, autoMade, lastCall>>
postVars == <<calls, now>>
vars == <<connVars, postVars, sess, peer, rpc, http>>

(***************************************************************************)
(* Sockets.  readyState of a WebSocket: CONNECTING, OPEN, CLOSING, CLOSED. *)
(* CLOSING is split by what close() interrupted: closing a socket that is  *)
(* still connecting fails the connection (error event, then close event);  *)
(* closing an open one starts the closing handshake.  NOSOCKET records a   *)
(* constructor call that threw: no socket exists.                          *)
(***************************************************************************)
CONNECTING == "CONNECTING"
OPEN == "OPEN"
CLOSING_C == "CLOSING_FROM_CONNECTING"
CLOSING_O == "CLOSING_FROM_OPEN"
CLOSED == "CLOSED"
NOSOCKET == "THREW"

Delays == {k * reconnectDelay : k \in 0..maxReconnectAttempts}

\* The fields of the WebSocketSubprovider object and of its environment,
\* as one value that the methods below transform.
This ==
    [ws |-> ws, messageQueue |-> messageQueue, isConnecting |-> isConnecting,
     reconnectAttempts |-> reconnectAttempts, socks |-> socks,
     timers |-> timers, wire |-> wire, thrown |-> "none"]

readyStateOpen(S) == S.ws # 0 /\ S.socks[S.ws] = OPEN

setTimeout_dropped(S, d) == S

setTimeout_fixed(S, d) ==
    [S EXCEPT !.timers = [@ EXCEPT ![reconnectDelay] = @ + 1]]

\* setTimeout(() => this.connect(), d)
setTimeout(S, d) ==
    [S EXCEPT !.timers = [@ EXCEPT ![d] = @ + 1]]

\* handleDisconnect(), lines 222-232
handleDisconnect(S) ==
    LET S1 == [S EXCEPT !.isConnecting = FALSE, !.ws = 0]
    IN  IF S1.reconnectAttempts < maxReconnectAttempts
        THEN LET n == S1.reconnectAttempts + 1
             IN  setTimeout([S1 EXCEPT !.reconnectAttempts = n], reconnectDelay * n)
        ELSE [S1 EXCEPT !.thrown = "NETWORK_ERROR"]

connectGuard_openOnly(S) == S.ws # 0 /\ S.socks[S.ws] = OPEN

\* the guard of connect(), line 179
connectGuard(S) == readyStateOpen(S) \/ S.isConnecting

\* connect(), lines 178-216.  The four handlers it installs are the socket
\* actions below.
connect(S) ==
    IF connectGuard(S) THEN S
    ELSE IF urlOk
         THEN [S EXCEPT !.isConnecting = TRUE,
                        !.socks = Append(@, CONNECTING),
                        !.ws = Len(S.socks) + 1]
         ELSE handleDisconnect([S EXCEPT !.isConnecting = FALSE,
                                         !.socks = Append(@, NOSOCKET)])

\* the while loop of flushMessageQueue(), lines 242-251
RECURSIVE flushLoop(_)
flushLoop(S) ==
    IF S.messageQueue = <<>> THEN S
    ELSE LET message == Head(S.messageQueue)
             S1 == [S EXCEPT !.messageQueue = Tail(@)]
         IN  IF message.bad
             THEN [S1 EXCEPT !.thrown = "NETWORK_ERROR"]
             ELSE flushLoop([S1 EXCEPT !.wire =
                                Append(@, [seq |-> message.seq, call |-> message.call,
                                           sock |-> S.ws])])

\* flushMessageQueue(), lines 237-252
flushMessageQueue(S) ==
    IF ~readyStateOpen(S) THEN S ELSE flushLoop(S)

push_unshift(q, message) == <<message>> \o q

\* this.messageQueue.push(message), line 267
push(q, message) == Append(q, message)

\* send(message), lines 259-270
send(S, message) ==
    IF readyStateOpen(S)
    THEN IF message.bad
         THEN [S EXCEPT !.thrown = "NETWORK_ERROR"]
         ELSE [S EXCEPT !.wire = Append(@, [seq |-> message.seq, call |-> message.call,
                                            sock |-> S.ws])]
    ELSE connect([S EXCEPT !.messageQueue = push(@, message)])

\* ws.close() on a socket
closeSocket(st) ==
    CASE st = CONNECTING -> CLOSING_C
      [] st = OPEN -> CLOSING_O
      [] OTHER -> st

\* disconnect(), lines 275-282
disconnect(S) ==
    LET S1 == IF S.ws # 0
              THEN [S EXCEPT !.socks = [@ EXCEPT ![S.ws] = closeSocket(@)], !.ws = 0]
              ELSE S
    IN  [S1 EXCEPT !.messageQueue = <<>>, !.reconnectAttempts = 0]

onopen_keepCount(S) ==
    flushMessageQueue([S EXCEPT !.isConnecting = FALSE])

\* ws.onopen, lines 188-192
onopen(S) ==
    flushMessageQueue([S EXCEPT !.isConnecting = FALSE, !.reconnectAttempts = 0])

\* ws.onclose, lines 205-207
onclose(S) == handleDisconnect(S)

\* ws.onerror, lines 209-211
onerror(S) == handleDisconnect(S)

\* An exception thrown by an event handler is reported and the dispatch of
\* the next event goes on: the handler's assignments so far stay.
Caught(S) == [S EXCEPT !.thrown = "none"]
Thrown(S1, S2) == IF S1.thrown # "none" THEN S1.thrown ELSE S2.thrown

\* The state after a handler or method that ended in state S.
Becomes(S, e) ==
    /\ ws' = S.ws
    /\ messageQueue' = S.messageQueue
    /\ isConnecting' = S.isConnecting
    /\ reconnectAttempts' = S.reconnectAttempts
    /\ socks' = S.socks
    /\ timers' = S.timers
    /\ wire' = S.wire
    /\ err' = e
    /\ UNCHANGED urlOk


\* whether the constructor is evaluated by connect() in state S
constructs(S) == ~connectGuard(S)

\* the run's bound B on constructor calls
MayConstruct(S, B) == constructs(S) => Len(socks) < B

Sat(n) == IF n > maxReconnectAttempts + 1 THEN maxReconnectAttempts + 1 ELSE n

(***************************************************************************)
(* post(), lines 295-329.  A call is its messageId, the socket its         *)
(* messageHandler is attached to (0: none), and the state of its promise.  *)
(* A frame is what JSON.parse makes of event.data: kind "malformed" does   *)
(* not parse; "result" carries a result field, "error" an error object     *)
(* with its message, "empty" neither.  origin names the call whose request *)
(* the server answers with the frame (0: an unsolicited frame).  answers   *)
(* is history: how many frames with the call's identifier arrived on a     *)
(* socket that carried the call's request (2 stands for two or more).      *)
(***************************************************************************)
NoValue == [code |-> "", msg |-> "", id |-> -1, origin |-> 0, result |-> ""]

\* JSON values of a result field, written as their JSON text
Results == {"{}", "0", "false", "\"\""}

\* messages of the error object of a response
ErrorMessages == {"bad", "rate limited"}

\* ToBoolean of a parsed JSON value, as `else if (response.result)` takes it
truthy(v) == v \notin {"0", "false", "\"\"", "null"}

resolve_unguarded(call, frame) ==
    [call EXCEPT !.status = "resolved",
                 !.value = [code |-> "", msg |-> "", id |-> frame.id,
                            origin |-> frame.origin, result |-> frame.result]]

resolve(call, frame) ==
    IF call.status = "pending"
    THEN [call EXCEPT !.status = "resolved",
                      !.value = [code |-> "", msg |-> "", id |-> frame.id,
                                 origin |-> frame.origin, result |-> frame.result]]
    ELSE call

reject(call, code, msg) ==
    IF call.status = "pending"
    THEN [call EXCEPT !.status = "rejected",
                      !.value = [code |-> code, msg |-> msg, id |-> -1, origin |-> 0,
                                 result |-> ""]]
    ELSE call

\* this.ws?.removeEventListener('message', messageHandler), line 312: the
\* handler is taken off the socket that is this.ws now
removeEventListener(call) ==
    IF ws # 0 /\ call.lsock = ws THEN [call EXCEPT !.lsock = 0] ELSE call

messageHandler_dropOnGarbage(call, frame) ==
    IF frame.kind = "malformed" THEN [call EXCEPT !.lsock = 0] ELSE call

messageHandler_truthyOnly(call, frame) ==
    IF frame.kind = "result" /\ truthy(frame.result) /\ frame.id = call.id
    THEN resolve(removeEventListener(call), frame)
    ELSE call

\* messageHandler of post(), lines 308-324
messageHandler(call, frame) ==
    IF frame.kind = "malformed"
    THEN reject(call, "INVALID_RESPONSE", "Failed to parse WebSocket message")
    ELSE IF frame.id = call.id
         THEN LET c1 == removeEventListener(call)
              IN  IF frame.kind = "error"
                  THEN reject(c1, "INVALID_RESPONSE", frame.msg)
                  ELSE IF frame.kind = "result" /\ truthy(frame.result)
                       THEN resolve(c1, frame)
                       ELSE reject(c1, "INVALID_RESPONSE", "Invalid response format")
         ELSE call

\* the frames a server can send on socket s: answers to the requests it
\* received on s, frames nobody asked for, and garbage
ResponseKinds == {"result", "error", "empty"}

\* a frame whose data JSON.parse rejects
malformedFrame ==
    [kind |-> "malformed", id |-> -1, origin |-> 0, result |-> "", msg |-> ""]

Frames(s) ==
    LET asked == {j \in DOMAIN wire : wire[j].sock = s /\ wire[j].call # 0}
        payloads(k) == CASE k = "result" -> {<<r, "">> : r \in Results}
                         [] k = "error" -> {<<"", m>> : m \in ErrorMessages}
                         [] OTHER -> {<<"", "">>}
    IN  UNION {{[kind |-> k, id |-> calls[wire[i].call].id, origin |-> wire[i].call,
                 result |-> p[1], msg |-> p[2]] : p \in payloads(k)} :
               k \in ResponseKinds, i \in asked}
        \cup {[kind |-> "result", id |-> -1, origin |-> 0, result |-> "{}", msg |-> ""],
              malformedFrame}

\* frame, arriving on socket s, carries the identifier of call c, and s is a
\* socket that c's request was handed to
answersCall(c, s, frame) ==
    /\ frame.kind # "malformed"
    /\ frame.id = calls[c].id
    /\ \E i \in DOMAIN wire : wire[i].call = c /\ wire[i].sock = s

\* Date.now() has not changed since a call took it as its id
nowUsed == \E c \in DOMAIN calls : calls[c].id = now

(***************************************************************************)
(* IntentProvider, src/src/providers/IntentProvider.ts.  Every method      *)
(* normalizes the chain name, calls its transport once (httpProvider.post  *)
(* or wsProvider.stream) and wraps whatever is thrown inside its try block.*)
(* A string is the sequence of its characters.                             *)
(***************************************************************************)
UpperCase == <<"A", "B", "C", "D", "E", "F", "G", "H", "I", "J", "K", "L", "M",
               "N", "O", "P", "Q", "R", "S", "T", "U", "V", "W", "X", "Y", "Z">>
LowerCase == <<"a", "b", "c", "d", "e", "f", "g", "h", "i", "j", "k", "l", "m",
               "n", "o", "p", "q", "r", "s", "t", "u", "v", "w", "x", "y", "z">>

\* String.prototype.toLowerCase, on the characters the names are made of
toLowerCase(str) ==
    [i \in DOMAIN str |->
        IF \E k \in DOMAIN UpperCase : UpperCase[k] = str[i]
        THEN LowerCase[CHOOSE k \in DOMAIN UpperCase : UpperCase[k] = str[i]]
        ELSE str[i]]

ethereum == <<"e", "t", "h", "e", "r", "e", "u", "m">>
eth == <<"e", "t", "h">>
constructor == <<"c", "o", "n", "s", "t", "r", "u", "c", "t", "o", "r">>

\* chain names a caller passes
ChainNames ==
    {ethereum, eth, constructor, <<>>,
     <<"E", "t", "h", "e", "r", "e", "u", "m">>,
     <<"E", "T", "H", "E", "R", "E", "U", "M">>,
     <<"E", "T", "H">>,
     <<"p", "o", "l", "y", "g", "o", "n">>,
     <<"P", "o", "l", "y", "g", "o", "n">>,
     <<"b", "s", "c">>, <<"B", "S", "C">>,
     <<"C", "o", "n", "s", "t", "r", "u", "c", "t", "o", "r">>}

\* what a property lookup on the object literal chainMap gives: its own
\* property, a member of Object.prototype (a function, not a string), or
\* undefined
undefined == <<"undefined">>
inheritedMember == <<"function of Object.prototype">>
ObjectPrototypeKeys ==
    {constructor, <<"_", "_", "p", "r", "o", "t", "o", "_", "_">>}
chainMap(key) ==
    IF key = ethereum THEN eth
    ELSE IF key \in ObjectPrototypeKeys THEN inheritedMember
    ELSE undefined

normalizeChainName_lowerOnly(chain) == toLowerCase(chain)

\* normalizeChainName(chain), lines 61-67: chainMap[k] || k
normalizeChainName(chain) ==
    LET key == toLowerCase(chain)
    IN  IF chainMap(key) # undefined THEN chainMap(key) ELSE key

Methods ==
    {"getRecentTxs", "getTranslatedTx", "getTokenPriceTicks",
     "getHistoricalTokenPrices", "getChainNewTxs", "getTokenPrice",
     "getTokensBalances"}

\* the fixed text each method's catch block starts its message with
prefix(method) ==
    CASE method = "getRecentTxs" -> "Failed to fetch recent transactions"
      [] method = "getTranslatedTx" -> "Failed to fetch translated transaction"
      [] method = "getTokenPriceTicks" -> "Failed to fetch token price ticks"
      [] method = "getHistoricalTokenPrices" -> "Failed to fetch historical token prices"
      [] method = "getChainNewTxs" -> "Failed to fetch chain new transactions"
      [] method = "getTokenPrice" -> "Failed to fetch token price"
      [] method = "getTokensBalances" -> "Failed to fetch token balances"

\* what a transport throws: an Error with a message, or a value that is not
\* an Error
NoError == [isError |-> FALSE, message |-> "", none |-> TRUE]
TransportErrors ==
    {[isError |-> TRUE, message |-> "Network error", none |-> FALSE],
     [isError |-> TRUE, message |-> "Failed to send request", none |-> FALSE],
     [isError |-> FALSE, message |-> "", none |-> FALSE]}

\* what a transport resolves with, by what getRecentTxs looks at
ResponseShapes == {"null", "no items", "items not an array", "items array"}

catch_rethrow(method, error) ==
    [code |-> "", message |-> <<error.message>>]

\* the catch block of every method (lines 93-98 for getRecentTxs): the
\* message of an Error is interpolated after the prefix and ": "
catch(method, error) ==
    IF error.isError
    THEN [code |-> "NETWORK_ERROR", message |-> <<prefix(method), ": ", error.message>>]
    ELSE [code |-> "INVALID_RESPONSE", message |-> <<prefix(method)>>]

returns(r, value) == [r EXCEPT !.pc = "returned", !.value = value]

throws(r, e) == [r EXCEPT !.pc = "threw", !.code = e.code, !.message = e.message]

\* the try block after the transport has resolved: getRecentTxs checks the
\* response (lines 88-92) and throws inside its own try; the other methods
\* hand the response on
afterResponse(r, response) ==
    IF r.method = "getRecentTxs"
    THEN IF response = "null" \/ response # "items array"
         THEN throws(r, catch(r.method,
                  [isError |-> TRUE,
                   message |-> "Invalid response format from intents endpoint",
                   none |-> FALSE]))
         ELSE returns(r, "the items")
    ELSE returns(r, response)

(***************************************************************************)
(* HttpSubprovider.post, lines 85-121: one fetch, the status checks, the   *)
(* body, and the catch block around all of it.  An error is its class      *)
(* (isError: whether it is an instance of Error), its code if it is an     *)
(* IntentProviderError, and its message, kept as the pieces the template   *)
(* literal joins.                                                          *)
(***************************************************************************)
Statuses == {200, 201, 204, 301, 400, 401, 403, 404, 429, 500, 502, 503}

\* response.ok
ok(status) == status \in 200..299

\* the body of the response, by what response.json() makes of it
Bodies == {"object with message", "object", "null", "not JSON"}

Endpoints == {"/intents", "/prices"}

\* what fetch rejects with: a TypeError, which is an Error
FetchErrors ==
    {[isError |-> TRUE, code |-> "", message |-> <<"fetch failed">>],
     [isError |-> TRUE, code |-> "", message |-> <<"Failed to fetch">>]}

\* createInvalidResponseError(message) and createNetworkError(message),
\* src/src/types/errors.ts: IntentProviderError extends Error
createInvalidResponseError(message) ==
    [isError |-> TRUE, code |-> "INVALID_RESPONSE", message |-> message]

createNetworkError(message) ==
    [isError |-> TRUE, code |-> "NETWORK_ERROR", message |-> message]

\* the SyntaxError of response.json() on a body that is not JSON
SyntaxError == [isError |-> TRUE, code |-> "", message |-> <<"Unexpected token">>]

\* errorData?.message || response.statusText, line 108
errorText(body) ==
    IF body = "object with message" THEN "errorData.message" ELSE "response.statusText"

\* what the try block throws for a response that is not OK, lines 98-112
notOk(status, body) ==
    CASE status = 404 ->
           createInvalidResponseError(
               <<"Endpoint not found. Please check the API documentation.">>)
      [] status = 401 ->
           createInvalidResponseError(<<"Unauthorized. Please check your API key.">>)
      [] status = 400 ->
           createInvalidResponseError(<<"Invalid request: ", errorText(body)>>)
      [] OTHER ->
           createNetworkError(
               <<"Failed to make POST request: ", ToString(status), " ",
                 "response.statusText">>)

\* the catch block, lines 115-120
httpCatch(error) ==
    IF error.isError
    THEN createNetworkError(<<"Error making POST request: ">> \o error.message)
    ELSE createInvalidResponseError(<<"Failed to make POST request">>)

httpResolves(h, value) == [h EXCEPT !.pc = "resolved", !.value = value]

httpRejects(h, error) ==
    [h EXCEPT !.pc = "rejected", !.code = error.code, !.message = error.message]

\* the try block after fetch has resolved, lines 98-114
afterFetch(h, status, body) ==
    IF ~ok(status) THEN httpRejects(h, httpCatch(notOk(status, body)))
    ELSE IF body = "not JSON" THEN httpRejects(h, httpCatch(SyntaxError))
    ELSE httpResolves(h, body)

\* the locals of a stream session before its generator has started
NewSession ==
    [pc |-> "start", sock |-> "NONE", listening |-> FALSE,
     messageQueue |-> <<>>, resolveNext |-> FALSE, returnQueued |-> FALSE,
     thrown |-> "none", arrived |-> <<>>, delivered |-> <<>>,
     frames |-> 0, cancelled |-> FALSE, afterCancel |-> 0,
     opened |-> FALSE]

Init ==
    /\ ws = 0
    /\ messageQueue = <<>>
    /\ isConnecting = FALSE
    /\ reconnectAttempts = 0
    /\ urlOk \in BOOLEAN
    /\ socks = <<>>
    /\ timers = [d \in Delays |-> 0]
    /\ wire = <<>>
    /\ err = "none"
    /\ nextSeq = 0
    /\ queuedSeqs = {}
    /\ autoMade = 0
    /\ lastCall = "none"
    /\ calls = <<>>
    /\ now = 0
    /\ sess = NewSession
    /\ peer = NewSession
    /\ rpc = [pc |-> "idle", method |-> "", chain |-> <<>>, passed |-> <<>>,
              transportCalls |-> 0, outcome |-> "none", response |-> "",
              error |-> NoError, value |-> "", code |-> "", message |-> <<>>]
    /\ http = [pc |-> "idle", endpoint |-> "", fetchFailed |-> FALSE, status |-> 0,
               body |-> "", value |-> "", code |-> "", message |-> <<>>]

(***************************************************************************)
(* The user's calls on the shared connection.                              *)
(***************************************************************************)
Connect(B) ==
    /\ MayConstruct(This, B)
    /\ LET S == connect(This) IN Becomes(S, S.thrown)
    /\ lastCall' = IF connectGuard(This) THEN "connect: no-op" ELSE "connect"
    /\ UNCHANGED <<nextSeq, queuedSeqs, autoMade, postVars, sess, peer, rpc, http>>

SendWithin(B, M) ==
    /\ nextSeq < M
    /\ MayConstruct(This, B)
    /\ \E bad \in BOOLEAN :
          LET message == [seq |-> nextSeq + 1, call |-> 0, bad |-> bad]
              S == send(This, message)
          IN  /\ Becomes(S, S.thrown)
              /\ nextSeq' = nextSeq + 1
              /\ queuedSeqs' = IF readyStateOpen(This) THEN queuedSeqs
                               ELSE queuedSeqs \cup {message.seq}
    /\ lastCall' = "send"
    /\ UNCHANGED <<autoMade, postVars, sess, peer, rpc, http>>

Send(B) == SendWithin(B, MaxMsgs)

Disconnect ==
    /\ LET S == disconnect(This) IN Becomes(S, S.thrown)
    /\ lastCall' = "disconnect"
    /\ autoMade' = 0
    /\ UNCHANGED <<nextSeq, queuedSeqs, postVars, sess, peer, rpc, http>>

\* post(endpoint, data): an exception of send() inside the promise's
\* executor rejects the promise
PostWithin(B, M) ==
    /\ nextSeq < M
    /\ MayConstruct(This, B)
    /\ \E bad \in BOOLEAN :
          LET messageId == now
              message == [seq |-> nextSeq + 1, call |-> Len(calls) + 1, bad |-> bad]
              call == [id |-> messageId, lsock |-> ws, status |-> "pending",
                       value |-> NoValue, answers |-> 0]
              S == send(This, message)
          IN  /\ Becomes(S, "none")
              /\ calls' = Append(calls,
                              IF S.thrown = "none" THEN call
                              ELSE reject(call, S.thrown, "send failed"))
              /\ nextSeq' = nextSeq + 1
              /\ queuedSeqs' = IF readyStateOpen(This) THEN queuedSeqs
                               ELSE queuedSeqs \cup {message.seq}
    /\ lastCall' = "post"
    /\ UNCHANGED <<autoMade, now, sess, peer, rpc, http>>

Post(B) == PostWithin(B, MaxMsgs)

\* a millisecond passes
AdvanceNow ==
    /\ nowUsed
    /\ now' = now + 1
    /\ UNCHANGED <<connVars, calls, sess, peer, rpc, http>>

(***************************************************************************)
(* Timers.  Time passes in steps of reconnectDelay; a timer that is due    *)
(* fires before time passes again, so timers fire in the order of their    *)
(* deadlines.                                                              *)
(***************************************************************************)
TimerFire(B) ==
    /\ timers[0] > 0
    /\ LET S0 == [This EXCEPT !.timers = [@ EXCEPT ![0] = @ - 1]]
       IN  /\ MayConstruct(S0, B)
           /\ LET S == connect(S0) IN Becomes(S, S.thrown)
           /\ autoMade' = IF constructs(S0) THEN Sat(autoMade + 1) ELSE autoMade
    /\ UNCHANGED <<nextSeq, queuedSeqs, lastCall, postVars, sess, peer, rpc, http>>

Tick ==
    /\ timers[0] = 0
    /\ \E d \in Delays : timers[d] > 0
    /\ timers' = [d \in Delays |->
                    IF d + reconnectDelay \in Delays THEN timers[d + reconnectDelay] ELSE 0]
    /\ now' = IF nowUsed THEN now + 1 ELSE now
    /\ UNCHANGED <<ws, messageQueue, isConnecting, reconnectAttempts, urlOk, socks,
                   wire, err, nextSeq, queuedSeqs, autoMade, lastCall, calls, sess, peer, rpc, http>>

(***************************************************************************)
(* Socket events of the shared connection.  The handlers are closures over *)
(* `this`, so they run whether or not the socket is still this.ws.         *)
(***************************************************************************)
WithSock(S, s, st) == [S EXCEPT !.socks = [@ EXCEPT ![s] = st]]

\* the connection is established: open event
SocketOpen(s) ==
    /\ socks[s] = CONNECTING
    /\ LET S == onopen(WithSock(This, s, OPEN)) IN Becomes(S, S.thrown)
    /\ autoMade' = 0
    /\ UNCHANGED <<nextSeq, queuedSeqs, lastCall, postVars, sess, peer, rpc, http>>

\* the connection failed: the socket is CLOSED, an error event and then a
\* close event are dispatched in the same task
SocketFail(s) ==
    /\ socks[s] \in {CONNECTING, OPEN, CLOSING_C, CLOSING_O}
    /\ LET S1 == onerror(WithSock(This, s, CLOSED))
           S2 == onclose(Caught(S1))
       IN  Becomes(S2, Thrown(S1, S2))
    /\ UNCHANGED <<nextSeq, queuedSeqs, autoMade, lastCall, postVars, sess, peer, rpc, http>>

\* the connection was closed cleanly: close event alone
SocketClose(s) ==
    /\ socks[s] \in {OPEN, CLOSING_O}
    /\ LET S == onclose(WithSock(This, s, CLOSED)) IN Becomes(S, S.thrown)
    /\ UNCHANGED <<nextSeq, queuedSeqs, autoMade, lastCall, postVars, sess, peer, rpc, http>>

\* a frame arrives on socket s: the message event runs every messageHandler
\* attached to s.  ws.onmessage (lines 194-203) runs too, and does nothing
\* without an onMessage callback, which IntentProvider does not pass.
Deliver(s, frame) ==
    /\ calls' = [c \in DOMAIN calls |->
                   LET call == IF calls[c].lsock = s
                               THEN messageHandler(calls[c], frame)
                               ELSE calls[c]
                   IN  [call EXCEPT !.answers =
                           IF answersCall(c, s, frame) /\ @ < 2 THEN @ + 1 ELSE @]]
    /\ UNCHANGED <<connVars, now, sess, peer, rpc, http>>

ServerFrame(s) ==
    /\ socks[s] \in {OPEN, CLOSING_O}
    /\ \E frame \in Frames(s) : Deliver(s, frame)

(***************************************************************************)
(* stream(), lines 343-400: an async generator.  Nothing of its body runs  *)
(* before the consumer's first next().  pc is where the generator stands:  *)
(*   "start"      not started                                              *)
(*   "awaitOpen"  at the await of the open promise, line 380               *)
(*   "awaitItem"  at the await of the next-item promise, line 390          *)
(*   "yielded"    suspended at a yield, the consumer holds the value       *)
(*   "done"       completed, the finally block has run                     *)
(* opened is history: the dedicated socket has signalled open.             *)
(* In "awaitOpen" and "awaitItem" a next() of the consumer is outstanding. *)
(* A return() that arrives while the generator is running (awaiting) is    *)
(* queued behind the outstanding next(), as the language specifies.        *)
(* The continuation of an await runs in the microtasks of the task that    *)
(* resolved it, so it belongs to the same step.                            *)
(***************************************************************************)

enqueue_front(q, response) == <<response>> \o q

\* messageQueue.push(response), line 369
enqueue(q, response) == Append(q, response)

finally_keepListener(T) ==
    [T EXCEPT !.sock = closeSocket(@), !.resolveNext = FALSE, !.pc = "done"]

\* the finally block, lines 395-399
finally(T) ==
    [T EXCEPT !.listening = FALSE, !.sock = closeSocket(@), !.resolveNext = FALSE,
              !.pc = "done"]

\* a yield, lines 388 and 390: the value goes to the consumer; a queued
\* return() then resumes the generator at the yield and unwinds it
yield(T, value) ==
    LET T1 == [T EXCEPT !.delivered = Append(@, value), !.pc = "yielded"]
    IN  IF T1.returnQueued THEN finally([T1 EXCEPT !.returnQueued = FALSE]) ELSE T1

pullLoop_waitFirst(T) ==
    [T EXCEPT !.resolveNext = TRUE, !.pc = "awaitItem"]

\* one turn of the while loop, lines 386-394, up to its yield or await
pullLoop(T) ==
    IF Len(T.messageQueue) > 0
    THEN yield([T EXCEPT !.messageQueue = Tail(@)], Head(T.messageQueue))
    ELSE [T EXCEPT !.resolveNext = TRUE, !.pc = "awaitItem"]

\* lines 345-383: the socket, the listener, then the await of the open promise
streamStart(T) ==
    [T EXCEPT !.sock = CONNECTING, !.listening = TRUE, !.pc = "awaitOpen"]

\* messageHandler of stream(), lines 362-374
streamMessageHandler(T, wellFormed, response) ==
    IF ~wellFormed
    THEN [T EXCEPT !.thrown = "INVALID_RESPONSE"]
    ELSE IF T.resolveNext
         THEN yield([T EXCEPT !.resolveNext = FALSE], response)
         ELSE [T EXCEPT !.messageQueue = enqueue(@, response)]

\* the consumer's next()
StreamPull ==
    /\ ~sess.cancelled
    /\ sess.pc \in {"start", "yielded"}
    /\ sess' = IF sess.pc = "start" THEN streamStart(sess) ELSE pullLoop(sess)
    /\ UNCHANGED <<connVars, postVars, peer, rpc, http>>

\* the consumer stops iterating: return()
StreamCancel ==
    /\ ~sess.cancelled
    /\ sess.pc # "done"
    /\ LET T == [sess EXCEPT !.cancelled = TRUE]
       IN  sess' = CASE T.pc = "start" -> [T EXCEPT !.pc = "done"]
                     [] T.pc = "yielded" -> finally(T)
                     [] OTHER -> [T EXCEPT !.returnQueued = TRUE]
    /\ UNCHANGED <<connVars, postVars, peer, rpc, http>>

\* ws.onopen = () => resolve(), line 381
StreamOpen ==
    /\ sess.sock = CONNECTING
    /\ sess' = LET T == [sess EXCEPT !.sock = OPEN, !.opened = TRUE]
               IN  IF T.pc = "awaitOpen" THEN pullLoop(T) ELSE T
    /\ UNCHANGED <<connVars, postVars, peer, rpc, http>>

StreamFail_sharedBackoff ==
    /\ sess.sock \in {CONNECTING, OPEN, CLOSING_C, CLOSING_O}
    /\ sess' = LET T == [sess EXCEPT !.sock = CLOSED]
               IN  IF T.pc = "awaitOpen"
                   THEN [finally(T) EXCEPT !.thrown = "NETWORK_ERROR",
                                           !.returnQueued = FALSE]
                   ELSE T
    /\ Becomes(Caught(handleDisconnect(This)), err)
    /\ UNCHANGED <<nextSeq, queuedSeqs, autoMade, lastCall, postVars, peer, rpc, http>>

\* the dedicated connection fails: ws.onerror rejects the open promise,
\* line 382, which has an effect only while that promise is unsettled;
\* there is no onclose handler
StreamFail ==
    /\ sess.sock \in {CONNECTING, OPEN, CLOSING_C, CLOSING_O}
    /\ sess' = LET T == [sess EXCEPT !.sock = CLOSED]
               IN  IF T.pc = "awaitOpen"
                   THEN [finally(T) EXCEPT !.thrown = "NETWORK_ERROR",
                                           !.returnQueued = FALSE]
                   ELSE T
    /\ UNCHANGED <<connVars, postVars, peer, rpc, http>>

\* the dedicated connection is closed cleanly: no handler is installed
StreamClose ==
    /\ sess.sock \in {OPEN, CLOSING_O}
    /\ sess' = [sess EXCEPT !.sock = CLOSED]
    /\ UNCHANGED <<connVars, postVars, peer, rpc, http>>

\* a frame arrives on the dedicated socket, at most M frames
StreamFrameWithin(M) ==
    /\ sess.sock \in {OPEN, CLOSING_O}
    /\ sess.frames < M
    /\ \E wellFormed \in BOOLEAN :
          LET n == sess.frames + 1
              T == [sess EXCEPT !.frames = n, !.thrown = "none"]
              handled == T.listening /\ wellFormed
          IN  sess' = IF T.listening
                      THEN [streamMessageHandler(T, wellFormed, n) EXCEPT
                               !.arrived = IF handled THEN Append(@, n) ELSE @,
                               !.afterCancel = IF handled /\ T.cancelled THEN @ + 1 ELSE @]
                      ELSE T
    /\ UNCHANGED <<connVars, postVars, peer, rpc, http>>

StreamFrame == StreamFrameWithin(MaxFrames)

(***************************************************************************)
(* A second call of stream(), running at the same time: every call has its *)
(* own ws, messageQueue, resolveNext and handlers (lines 345-349), so the  *)
(* steps are those of the first session on the locals of the second.       *)
(***************************************************************************)
PeerPull ==
    /\ ~peer.cancelled
    /\ peer.pc \in {"start", "yielded"}
    /\ peer' = IF peer.pc = "start" THEN streamStart(peer) ELSE pullLoop(peer)
    /\ UNCHANGED <<connVars, postVars, sess, rpc, http>>

PeerCancel ==
    /\ ~peer.cancelled
    /\ peer.pc # "done"
    /\ LET T == [peer EXCEPT !.cancelled = TRUE]
       IN  peer' = CASE T.pc = "start" -> [T EXCEPT !.pc = "done"]
                     [] T.pc = "yielded" -> finally(T)
                     [] OTHER -> [T EXCEPT !.returnQueued = TRUE]
    /\ UNCHANGED <<connVars, postVars, sess, rpc, http>>

PeerOpen ==
    /\ peer.sock = CONNECTING
    /\ peer' = LET T == [peer EXCEPT !.sock = OPEN, !.opened = TRUE]
               IN  IF T.pc = "awaitOpen" THEN pullLoop(T) ELSE T
    /\ UNCHANGED <<connVars, postVars, sess, rpc, http>>

PeerFail ==
    /\ peer.sock \in {CONNECTING, OPEN, CLOSING_C, CLOSING_O}
    /\ peer' = LET T == [peer EXCEPT !.sock = CLOSED]
               IN  IF T.pc = "awaitOpen"
                   THEN [finally(T) EXCEPT !.thrown = "NETWORK_ERROR",
                                           !.returnQueued = FALSE]
                   ELSE T
    /\ UNCHANGED <<connVars, postVars, sess, rpc, http>>

PeerClose ==
    /\ peer.sock \in {OPEN, CLOSING_O}
    /\ peer' = [peer EXCEPT !.sock = CLOSED]
    /\ UNCHANGED <<connVars, postVars, sess, rpc, http>>

PeerFrame ==
    /\ peer.sock \in {OPEN, CLOSING_O}
    /\ peer.frames < MaxSessionFrames
    /\ \E wellFormed \in BOOLEAN :
          LET n == peer.frames + 1
              T == [peer EXCEPT !.frames = n, !.thrown = "none"]
              handled == T.listening /\ wellFormed
          IN  peer' = IF T.listening
                      THEN [streamMessageHandler(T, wellFormed, n) EXCEPT
                               !.arrived = IF handled THEN Append(@, n) ELSE @,
                               !.afterCancel = IF handled /\ T.cancelled THEN @ + 1 ELSE @]
                      ELSE T
    /\ UNCHANGED <<connVars, postVars, sess, rpc, http>>

(***************************************************************************)
(* One call of an IntentProvider method.                                   *)
(***************************************************************************)
\* the method is called: it normalizes the chain and calls its transport
ProviderCall ==
    /\ rpc.pc = "idle"
    /\ \E method \in Methods, chain \in ChainNames :
          rpc' = [rpc EXCEPT !.pc = "awaiting", !.method = method, !.chain = chain,
                             !.passed = normalizeChainName(chain),
                             !.transportCalls = @ + 1]
    /\ UNCHANGED <<connVars, postVars, sess, peer, http>>

\* the transport's promise resolves (for a stream method: an item arrives)
TransportResolves ==
    /\ rpc.pc = "awaiting"
    /\ \E response \in ResponseShapes :
          rpc' = afterResponse([rpc EXCEPT !.outcome = "resolved",
                                           !.response = response], response)
    /\ UNCHANGED <<connVars, postVars, sess, peer, http>>

\* the transport's promise rejects: the catch block runs
TransportRejects ==
    /\ rpc.pc = "awaiting"
    /\ \E error \in TransportErrors :
          rpc' = throws([rpc EXCEPT !.outcome = "rejected", !.error = error],
                        catch(rpc.method, error))
    /\ UNCHANGED <<connVars, postVars, sess, peer, http>>

(***************************************************************************)
(* One call of HttpSubprovider.post.                                       *)
(***************************************************************************)
\* post(endpoint, data) is called: it calls fetch
HttpPost ==
    /\ http.pc = "idle"
    /\ \E endpoint \in Endpoints :
          http' = [http EXCEPT !.pc = "awaiting", !.endpoint = endpoint]
    /\ UNCHANGED <<connVars, postVars, sess, peer, rpc>>

\* the server answers: fetch resolves with a response
FetchResolves ==
    /\ http.pc = "awaiting"
    /\ \E status \in Statuses, body \in Bodies :
          http' = afterFetch([http EXCEPT !.status = status, !.body = body],
                             status, body)
    /\ UNCHANGED <<connVars, postVars, sess, peer, rpc>>

\* no answer: fetch rejects
FetchRejects ==
    /\ http.pc = "awaiting"
    /\ \E error \in FetchErrors :
          http' = httpRejects([http EXCEPT !.fetchFailed = TRUE], httpCatch(error))
    /\ UNCHANGED <<connVars, postVars, sess, peer, rpc>>

(***************************************************************************)
(* Specifications.                                                         *)
(***************************************************************************)
\* one call of HttpSubprovider.post and the answer to its fetch
HttpNext ==
    \/ HttpPost
    \/ FetchResolves
    \/ FetchRejects

HttpSpec == Init /\ [][HttpNext]_vars

\* one call of an IntentProvider method and the answer of its transport
ProviderNext ==
    \/ ProviderCall
    \/ TransportResolves
    \/ TransportRejects

ProviderSpec == Init /\ [][ProviderNext]_vars

\* the shared connection and its outbound queue
Next ==
    \/ Connect(MaxSockets)
    \/ Send(MaxSockets)
    \/ Disconnect
    \/ TimerFire(MaxSockets)
    \/ Tick
    \/ \E s \in DOMAIN socks : SocketOpen(s)
    \/ \E s \in DOMAIN socks : SocketFail(s)
    \/ \E s \in DOMAIN socks : SocketClose(s)

Spec == Init /\ [][Next]_vars

\* the same with one more socket: sockets that outlive their place as this.ws
RaceNext ==
    \/ Connect(MaxRaceSockets)
    \/ Send(MaxRaceSockets)
    \/ Disconnect
    \/ TimerFire(MaxRaceSockets)
    \/ Tick
    \/ \E s \in DOMAIN socks : SocketOpen(s)
    \/ \E s \in DOMAIN socks : SocketFail(s)
    \/ \E s \in DOMAIN socks : SocketClose(s)

RaceSpec == Init /\ [][RaceNext]_vars

\* the reconnect budget: failures and retries with no send() and no disconnect()
ReconnectNext ==
    \/ Connect(MaxReconnectSockets)
    \/ TimerFire(MaxReconnectSockets)
    \/ Tick
    \/ \E s \in DOMAIN socks : SocketOpen(s)
    \/ \E s \in DOMAIN socks : SocketFail(s)
    \/ \E s \in DOMAIN socks : SocketClose(s)

ReconnectSpec == Init /\ [][ReconnectNext]_vars

\* the same where time passes and a timer that is due fires: the event loop
\* runs every setTimeout callback whose delay has elapsed
FairReconnectSpec ==
    /\ ReconnectSpec
    /\ WF_vars(Tick)
    /\ WF_vars(TimerFire(MaxReconnectSockets))

\* request/response calls over the shared connection
PostNext ==
    \/ Post(MaxSockets)
    \/ AdvanceNow
    \/ Connect(MaxSockets)
    \/ Disconnect
    \/ TimerFire(MaxSockets)
    \/ Tick
    \/ \E s \in DOMAIN socks : SocketOpen(s)
    \/ \E s \in DOMAIN socks : SocketFail(s)
    \/ \E s \in DOMAIN socks : SocketClose(s)
    \/ \E s \in DOMAIN socks : ServerFrame(s)

PostSpec == Init /\ [][PostNext]_vars

\* one post() call and its responses on a connection that opens, carries
\* frames and is closed by the user
CorrelatorNext ==
    \/ Connect(MaxPostSockets)
    \/ PostWithin(MaxPostSockets, MaxPostCalls)
    \/ AdvanceNow
    \/ Disconnect
    \/ \E s \in DOMAIN socks : SocketOpen(s)
    \/ \E s \in DOMAIN socks : ServerFrame(s)

CorrelatorSpec == Init /\ [][CorrelatorNext]_vars

\* the outbound queue with one more message
FlushNext ==
    \/ Connect(MaxFlushSockets)
    \/ SendWithin(MaxFlushSockets, MaxFlushMsgs)
    \/ Disconnect
    \/ TimerFire(MaxFlushSockets)
    \/ Tick
    \/ \E s \in DOMAIN socks : SocketOpen(s)
    \/ \E s \in DOMAIN socks : SocketFail(s)
    \/ \E s \in DOMAIN socks : SocketClose(s)

FlushSpec == Init /\ [][FlushNext]_vars

\* a server that never accepts: send() against connections that all fail
ExhaustedNext ==
    \/ SendWithin(MaxExhaustedSockets, MaxMsgs)
    \/ TimerFire(MaxExhaustedSockets)
    \/ Tick
    \/ \E s \in DOMAIN socks : SocketFail(s)

ExhaustedSpec == Init /\ [][ExhaustedNext]_vars

\* one stream session
StreamNext ==
    \/ StreamPull
    \/ StreamCancel
    \/ StreamOpen
    \/ StreamFail
    \/ StreamClose
    \/ StreamFrame

StreamSpec == Init /\ [][StreamNext]_vars

\* two stream sessions beside the shared connection and its requests
SessionsNext ==
    \/ StreamPull
    \/ StreamCancel
    \/ StreamOpen
    \/ StreamFail
    \/ StreamClose
    \/ StreamFrameWithin(MaxSessionFrames)
    \/ PeerPull
    \/ PeerCancel
    \/ PeerOpen
    \/ PeerFail
    \/ PeerClose
    \/ PeerFrame
    \/ PostWithin(MaxPostSockets, MaxPostCalls)
    \/ \E s \in DOMAIN socks : SocketOpen(s)

SessionsSpec == Init /\ [][SessionsNext]_vars

(***************************************************************************)
(* Properties.                                                             *)
(***************************************************************************)
IsPrefix(p, q) == Len(p) <= Len(q) /\ \A i \in DOMAIN p : p[i] = q[i]

LiveSockets == {s \in DOMAIN socks : socks[s] \in {CONNECTING, OPEN}}

NoTimerPending == \A d \in Delays : timers[d] = 0

\* the states of the shared connection as the object's fields show them
IsOpen == ws # 0 /\ socks[ws] = OPEN
IsConnecting == isConnecting

\* C1: the messages that send() queued (the connection was not Open) reach
\* the socket in the order of their send() calls, whatever connect(),
\* disconnect(), timers and socket events happen in between.
C1_QueuedFifo ==
    \A i, j \in DOMAIN wire :
        (i < j /\ wire[i].seq \in queuedSeqs /\ wire[j].seq \in queuedSeqs)
            => wire[i].seq < wire[j].seq

\* two messages queued while the connection was not Open have both reached
\* a socket
C1_Witness ==
    \E i, j \in DOMAIN wire :
        i < j /\ wire[i].seq \in queuedSeqs /\ wire[j].seq \in queuedSeqs

\* C2: a post() call that resolves does so with the response that carries
\* its own identifier and that answers its own request, never with the
\* response to another call.
C2_OwnResponse ==
    \A c \in DOMAIN calls :
        calls[c].status = "resolved"
            => calls[c].value.id = calls[c].id /\ calls[c].value.origin = c

\* C3: the well-formed frames received by a stream session are delivered
\* to the consumer exactly once and in arrival order: what was yielded is
\* a prefix of what arrived and, while the session runs, the rest is in the
\* buffer, in order.
C3_ExactlyOnceInOrder ==
    /\ IsPrefix(sess.delivered, sess.arrived)
    /\ sess.pc # "done" => sess.delivered \o sess.messageQueue = sess.arrived

\* one frame went to the waiting consumer and two more were buffered while
\* the consumer was not pulling
C3_Witness ==
    /\ Len(sess.delivered) >= 1
    /\ Len(sess.messageQueue) >= 2

\* C4: since the reconnect counter was last reset (construction, a
\* successful open, disconnect()), at most maxReconnectAttempts sockets are
\* constructed by reconnect timers.
C4_AtMostMaxAttempts == autoMade <= maxReconnectAttempts

\* C5: once the consumer has cancelled, the dedicated socket is closed, the
\* listener is removed and no frame that arrives afterwards is buffered or
\* handed to the consumer.
C5_CancelTearsDown ==
    sess.cancelled =>
        /\ ~sess.listening
        /\ sess.sock \notin {CONNECTING, OPEN}
        /\ sess.afterCancel = 0

\* C6: with the budget exhausted (the counter at its maximum, no socket, no
\* timer pending) and a url that a socket can be made for, an explicit
\* connect() resets the counter to zero and starts a new attempt.
C6_ConnectResets ==
    [][(/\ urlOk
        /\ reconnectAttempts = maxReconnectAttempts
        /\ ws = 0 /\ ~isConnecting /\ NoTimerPending
        /\ Connect(MaxReconnectSockets))
       => (reconnectAttempts' = 0 /\ isConnecting')]_vars

\* C7: disconnect() leaves the connection Closed: the socket closed and
\* dropped, the queue empty, the counter zero, the connecting flag down.
C7_DisconnectCloses ==
    [][Disconnect =>
        /\ ws' = 0
        /\ ws # 0 => socks'[ws] \in {CLOSING_C, CLOSING_O, CLOSED}
        /\ messageQueue' = <<>>
        /\ reconnectAttempts' = 0
        /\ ~isConnecting']_vars

\* C8: as long as disconnect() is the user's last call, there is no shared
\* socket and the reconnect counter is zero.
C8_DisconnectTerminal ==
    lastCall = "disconnect" => ws = 0 /\ reconnectAttempts = 0

C10_SingleSocket == Cardinality(LiveSockets) <= 1

\* C11: once a frame that carries a call's identifier has arrived on a
\* socket of the shared connection that the call's request was handed to,
\* the call is settled, whatever the state of the connection was when
\* post() was called.
C11_AnsweredIsSettled ==
    \A c \in DOMAIN calls : calls[c].answers > 0 => calls[c].status # "pending"

Handles(c, s, frame) ==
    /\ socks[s] \in {OPEN, CLOSING_O}
    /\ calls[c].lsock = s
    /\ calls[c].status = "pending"
    /\ frame.kind # "malformed"
    /\ frame.id = calls[c].id
    /\ Deliver(s, frame)

C14_ResultResolves ==
    [][UNCHANGED connVars =>
       \A c \in DOMAIN calls : \A s \in {calls[c].lsock} \ {0} :
       \A frame \in Frames(s) :
          (Handles(c, s, frame) /\ frame.kind = "result") =>
              /\ calls'[c].status = "resolved"
              /\ calls'[c].value.result = frame.result]_vars

\* the wire entries of the messages of q that the socket s accepts
Accepted(q, s) ==
    LET good == SelectSeq(q, LAMBDA m : ~m.bad)
    IN  [i \in 1..Len(good) |->
            [seq |-> good[i].seq, call |-> good[i].call, sock |-> s]]

\* C15: the flush at the open event of the current socket empties the queue
\* and hands every message the socket accepts to it, in queue order, the
\* ones behind a message that failed included.
C15_FlushContinues ==
    [][\A s \in DOMAIN socks :
          (SocketOpen(s) /\ ws = s) =>
              /\ messageQueue' = <<>>
              /\ wire' = wire \o Accepted(messageQueue, s)]_vars

\* C16: when the flush at the open event fails to transmit the request of a
\* post() call, that call is rejected with NETWORK_ERROR.
C16_FlushFailureRejects ==
    [][\A s \in DOMAIN socks :
          (/\ SocketOpen(s) /\ ws = s
           /\ messageQueue # <<>>
           /\ Head(messageQueue).bad
           /\ Head(messageQueue).call # 0)
          => LET c == Head(messageQueue).call
             IN  /\ calls'[c].status = "rejected"
                 /\ calls'[c].value.code = "NETWORK_ERROR"]_vars

\* C17: every message on the wire was passed to send() before every message
\* that is still in the queue: no send() overtakes a queued message.
C17_NoOvertaking ==
    \A i \in DOMAIN wire : \A k \in DOMAIN messageQueue :
        wire[i].seq < messageQueue[k].seq

C19_OpenBeforeItems ==
    /\ sess.delivered # <<>> => sess.opened
    /\ (sess.sock = CLOSED /\ ~sess.opened) =>
          /\ sess.pc = "done"
          /\ sess.thrown = "NETWORK_ERROR"
          /\ sess.delivered = <<>>
          /\ ~sess.listening

\* the dedicated socket failed while the first pull awaited its opening
C19_Witness ==
    sess.sock = CLOSED /\ ~sess.opened /\ sess.thrown = "NETWORK_ERROR"

\* C20: once the dedicated socket, having opened, is closed, the listener is
\* removed and no pull of the consumer is left waiting for an item.
C20_CloseTearsDown ==
    (sess.opened /\ sess.sock = CLOSED) =>
        ~sess.listening /\ sess.pc # "awaitItem"

\* C22: when the current socket of the shared connection, being Open, fails
\* or is closed, no post() call is pending after the event.
C22_LostFailsPending ==
    [][\A s \in DOMAIN socks :
          ((SocketFail(s) \/ SocketClose(s)) /\ ws = s /\ socks[s] = OPEN)
              => \A c \in DOMAIN calls : calls'[c].status # "pending"]_vars

\* C23: a malformed frame on a socket of the shared connection leaves the
\* socket, the current socket, the queue, the reconnect counter and the
\* connecting flag as they are, and leaves every messageHandler attached,
\* so that the frames after it are handled.
C23_MalformedKeepsConnection ==
    [][\A s \in DOMAIN socks :
          (socks[s] \in {OPEN, CLOSING_O} /\ Deliver(s, malformedFrame))
              => /\ UNCHANGED <<ws, socks, messageQueue, reconnectAttempts,
                               isConnecting>>
                 /\ \A c \in DOMAIN calls : calls'[c].lsock = calls[c].lsock]_vars

\* a handler that had met a malformed frame has then met a well-formed frame
\* with its identifier and has taken itself off the socket, which is still
\* the open current socket
C23_Witness ==
    \E c \in DOMAIN calls :
        /\ calls[c].value.msg = "Failed to parse WebSocket message"
        /\ calls[c].answers >= 1
        /\ calls[c].lsock = 0
        /\ IsOpen

\* C24: two post() calls that are pending at the same time have different
\* identifiers.
C24_DistinctIds ==
    \A c, d \in DOMAIN calls :
        (c # d /\ calls[c].status = "pending" /\ calls[d].status = "pending")
            => calls[c].id # calls[d].id

\* C29: a frame that is malformed, or that carries another identifier than
\* a pending call's, leaves that call pending.
C29_OnlyOwnIdSettles ==
    [][UNCHANGED connVars =>
       \A c \in DOMAIN calls : \A s \in {calls[c].lsock} \ {0} :
       \A frame \in Frames(s) :
          (/\ socks[s] \in {OPEN, CLOSING_O}
           /\ calls[c].status = "pending"
           /\ (frame.kind = "malformed" \/ frame.id # calls[c].id)
           /\ Deliver(s, frame))
          => calls'[c].status = "pending"]_vars

\* the reconnect budget is used up: the counter is at its maximum, there is
\* no socket, no attempt in progress and no reconnect timer left
Exhausted ==
    /\ reconnectAttempts = maxReconnectAttempts
    /\ ws = 0 /\ ~isConnecting
    /\ NoTimerPending

\* C25: send(), called when the reconnect budget is used up, fails and does
\* not queue its message.
C25_ExhaustedFails ==
    [][(Exhausted /\ SendWithin(MaxExhaustedSockets, MaxMsgs))
          => (err' # "none" /\ messageQueue' = messageQueue)]_vars

\* the shared connection was lost through a socket event while attempts
\* remained: no socket, no attempt in progress, the counter raised by
\* handleDisconnect() and, if it stands at the maximum, the timer of the
\* last attempt not yet fired
Lost ==
    /\ urlOk
    /\ ws = 0 /\ ~isConnecting
    /\ reconnectAttempts >= 1
    /\ reconnectAttempts = maxReconnectAttempts => ~NoTimerPending
    /\ Len(socks) < MaxReconnectSockets

\* C30: after the shared connection is lost while attempts remain, a
\* connection attempt follows: the connection is Connecting again, with no
\* call of the user needed.
C30_EventuallyReconnects == Lost ~> isConnecting

\* the connection has just been lost for the first time
C30_Witness == Lost /\ reconnectAttempts < maxReconnectAttempts /\ ~NoTimerPending

\* the name the claim says a chain name is normalized to
NormalForm(chain) ==
    IF toLowerCase(chain) = ethereum THEN eth ELSE toLowerCase(chain)

\* C26: the chain name a method passes to its transport is 'eth' for
\* 'ethereum' in any letter case and the lower-case form of any other name,
\* and normalizing it again gives the same name.
C26_NormalizedChain ==
    rpc.pc # "idle" =>
        /\ rpc.passed = NormalForm(rpc.chain)
        /\ normalizeChainName(rpc.passed) = rpc.passed

\* C27: when the transport rejects with an Error of message m, the method
\* rejects with NETWORK_ERROR and the message prefix + ': ' + m, having
\* called the transport once and returned nothing.
C27_WrapsTransportError ==
    (rpc.outcome = "rejected" /\ rpc.error.isError) =>
        /\ rpc.pc = "threw"
        /\ rpc.code = "NETWORK_ERROR"
        /\ rpc.message = <<prefix(rpc.method), ": ", rpc.error.message>>
        /\ rpc.transportCalls = 1
        /\ rpc.value = ""

\* the transport of getTokenPrice has rejected with 'Network error'
C27_Witness ==
    /\ rpc.method = "getTokenPrice"
    /\ rpc.outcome = "rejected"
    /\ rpc.error.message = "Network error"
    /\ rpc.message = <<"Failed to fetch token price", ": ", "Network error">>

\* C28: getRecentTxs returns the items of a response that has an items
\* array, and fails with INVALID_RESPONSE on any other response.
C28_RecentTxsItems ==
    (rpc.method = "getRecentTxs" /\ rpc.outcome = "resolved") =>
        IF rpc.response = "items array"
        THEN rpc.pc = "returned" /\ rpc.value = "the items"
        ELSE rpc.pc = "threw" /\ rpc.code = "INVALID_RESPONSE"

\* what a stream session owns that another session could disturb
Owned(T) == <<T.sock, T.messageQueue, T.resolveNext>>

\* C21: a step of a stream session (it is started, opens, receives a frame,
\* fails, closes or is cancelled) leaves the shared connection's socket,
\* outbound queue, reconnect counter and pending requests unchanged, and
\* leaves the socket, buffer and waiting-consumer slot of the other session
\* unchanged.
C21_SessionsIsolated ==
    [][/\ sess' # sess =>
            /\ UNCHANGED <<ws, socks, messageQueue, reconnectAttempts, calls>>
            /\ Owned(peer') = Owned(peer)
       /\ peer' # peer =>
            /\ UNCHANGED <<ws, socks, messageQueue, reconnectAttempts, calls>>
            /\ Owned(sess') = Owned(sess)]_vars

\* one session has failed to open while the other, open and having received
\* a frame, waits for its next item, and the shared connection holds an
\* unsent message of a pending request
C21_Witness ==
    /\ sess.pc = "done" /\ sess.thrown = "NETWORK_ERROR" /\ sess.sock = CLOSED
    /\ peer.sock = OPEN /\ peer.resolveNext /\ peer.frames >= 1
    /\ ws # 0 /\ messageQueue # <<>>
    /\ \E c \in DOMAIN calls : calls[c].status = "pending"

\* C31: the reconnect counter is always between 0 and maxReconnectAttempts,
\* and it is 0 right after the open event of any socket of the shared
\* connection.
C31_CounterBounded ==
    /\ [](reconnectAttempts \in 0..maxReconnectAttempts)
    /\ [][\A s \in DOMAIN socks : SocketOpen(s) => reconnectAttempts' = 0]_vars

\* a socket has opened after at least three sockets had failed: the counter,
\* raised by the failures, is back at 0
C31_Witness ==
    /\ IsOpen
    /\ reconnectAttempts = 0
    /\ Cardinality({s \in DOMAIN socks : socks[s] \in {CLOSED, NOSOCKET}}) >= 3

\* the messageHandler of the session has just thrown on a frame that does
\* not parse
MalformedHandled ==
    sess'.frames = sess.frames + 1 /\ sess'.thrown = "INVALID_RESPONSE"

\* C32: a frame that does not parse ends the session: the pull that is
\* outstanding when it arrives fails (the generator completes), and no frame
\* that arrived after a malformed one is yielded.  Frames are numbered in
\* arrival order; a number missing before a yielded one is a malformed frame.
C32_MalformedIsFatal ==
    /\ [](\A i \in DOMAIN sess.delivered : \A j \in 1..(sess.delivered[i] - 1) :
            \E k \in DOMAIN sess.arrived : sess.arrived[k] = j)
    /\ [][(MalformedHandled /\ sess.pc = "awaitItem")
            => (sess'.pc = "done" /\ ~sess'.listening)]_vars

\* C33: HttpSubprovider.post rejects with INVALID_RESPONSE on status 404,
\* 401 and 400, with NETWORK_ERROR on every other status that is not OK and
\* on a failed fetch, and resolves, with the parsed body, only on an OK
\* status.
C33_HttpErrorKinds ==
    http.pc \in {"resolved", "rejected"} =>
        IF http.fetchFailed
        THEN http.pc = "rejected" /\ http.code = "NETWORK_ERROR"
        ELSE IF http.status \in {404, 401, 400}
        THEN http.pc = "rejected" /\ http.code = "INVALID_RESPONSE"
        ELSE IF ~ok(http.status)
        THEN http.pc = "rejected" /\ http.code = "NETWORK_ERROR"
        ELSE http.pc = "resolved" => http.value = http.body

\* C34: between events, while the current socket of the shared connection is
\* Open, the outbound queue is empty.
C34_OpenMeansFlushed == IsOpen => messageQueue = <<>>

\* the message is in the queue q
Queued(q, message) == \E k \in DOMAIN q : q[k].seq = message.seq

\* the message has been handed to a socket
OnWire(w, message) == \E i \in DOMAIN w : w[i].seq = message.seq

\* C35: no message is handed to a socket twice, and a message leaves the
\* outbound queue only by being handed to a socket or by disconnect().
C35_NoMessageLost ==
    /\ [](\A i, j \in DOMAIN wire : i # j => wire[i].seq # wire[j].seq)
    /\ [][\/ Disconnect
          \/ \A k \in DOMAIN messageQueue :
                \/ Queued(messageQueue', messageQueue[k])
                \/ OnWire(wire', messageQueue[k])]_vars

\* C36: an open, error or close event of a socket that is not the current
\* socket of the shared connection leaves the current socket, the
\* connecting flag, the reconnect counter and the queue as they are and
\* schedules no reconnect.
C36_StaleEventsIgnored ==
    [][\A s \in DOMAIN socks :
          (ws # s /\ (SocketOpen(s) \/ SocketFail(s) \/ SocketClose(s)))
              => UNCHANGED <<ws, isConnecting, reconnectAttempts, messageQueue,
                             timers>>]_vars

\* the number of reconnect timers that are pending
RECURSIVE CountTimers(_, _)
CountTimers(t, D) ==
    IF D = {} THEN 0
    ELSE LET d == CHOOSE x \in D : TRUE IN t[d] + CountTimers(t, D \ {d})

PendingTimers == CountTimers(timers, Delays)

\* C37: the failure of the current socket (an error event, then a close
\* event), with attempts left, counts one reconnect attempt and schedules
\* one reconnect timer, and at most one reconnect timer is pending at any
\* time.
C37_OneAttemptPerFailure ==
    /\ [](PendingTimers <= 1)
    /\ [][\A s \in DOMAIN socks :
            (ws = s /\ reconnectAttempts < maxReconnectAttempts /\ SocketFail(s))
                => /\ reconnectAttempts' = reconnectAttempts + 1
                   /\ PendingTimers' = PendingTimers + 1]_vars

\* C38: the waiting-consumer slot of a stream session is set only while the
\* session's buffer is empty, and no step buffers a frame while it is set.
C38_WaitsOnlyOnEmptyBuffer ==
    /\ [](sess.resolveNext => sess.messageQueue = <<>>)
    /\ [][sess.resolveNext => sess'.messageQueue = <<>>]_vars

\* the consumer, having been given every frame that arrived, waits for the
\* next item on an empty buffer
C38_Witness ==
    /\ sess.resolveNext
    /\ Len(sess.delivered) >= 2
    /\ sess.frames = Len(sess.delivered)

\* C39: when the consumer cancels while a pull of theirs waits for the next
\* frame, the cancellation itself closes the dedicated socket and removes
\* the listener: no further frame is needed.
C39_CancelWhileWaiting ==
    [][(StreamCancel /\ sess.pc = "awaitItem")
          => (~sess'.listening /\ sess'.sock \notin {CONNECTING, OPEN})]_vars

====
